---- MODULE Spec2Model ----
(***************************************************************************)
(* Recipe Directory API (src/server.js): an Express service over three     *)
(* MongoDB collections (users, recipes, archived recipes).  Every handler  *)
(* is a sequence of store operations; each store operation is atomic and   *)
(* handlers of concurrent requests interleave between their store          *)
(* operations.  Single-operation handlers are one action; deleteRecipe,    *)
(* getRecipe and getAnalytics are one action per store operation.          *)
(***************************************************************************)
EXTENDS Integers, Sequences, FiniteSets, TLC

\* ---------------------------------------------------------------- bounds
MaxRecipes == 2
MaxUsers == 2
MaxViews == 2

RecipeIds == 1..MaxRecipes
\* In-flight deleteRecipe requests.
DelReqs == {"d1", "d2"}

\* ------------------------------------------------------------ JS values
\* null / no document.
NoDoc == [null |-> TRUE]
\* A Date value; the model keeps no clock, only whether a timestamp is set.
Date == [date |-> TRUE]
\* A missing or empty string: both are falsy and both fail `required`.
Absent == ""
\* Strings whose characters matter (e-mail addresses) are character tuples.
NoEmail == << >>
\* A missing author reference (null or undefined, no ObjectId).
NoAuthor == 0
\* An array value; null in its place is NoDoc.
Array(items) == [array |-> items]
\* The characters the `.` of a JS regular expression does not match: \n, \r,
\* U+2028 and U+2029 (a character is a one-character string; the last two
\* are written by their code points).
LineTerminators == {"\n", "\r", "U+2028", "U+2029"}
\* The analytics fallback (server.js:231-232).
NoRecipesYet == [sentinel |-> "No recipes yet"]

VARIABLES
  users,    \* the users collection, in insertion order
  recipes,  \* the recipes collection: id -> document or NoDoc
  nextId,   \* the next recipe identity the driver generates
  archive,  \* the archivedrecipes collection: a set of documents
  del,      \* deleteRecipe requests in flight: their position and locals
  ana,      \* the getAnalytics request in flight: its position and locals
  get,      \* the getRecipe request in flight: its position and locals
  resp      \* the last response of a single-operation handler

vars == <<users, recipes, nextId, archive, del, ana, get, resp>>
store == <<users, recipes, nextId, archive>>

\* ------------------------------------------------------------- schemas
\* userSchema.email match: /.+\@.+\..+/ (unanchored): an '@' with a character
\* before it, then a later '.' with at least one character between, all of
\* them matched by `.`, and a character after; `.` matches any character but
\* a line terminator.
EmailMatches(e) ==
  \E i \in 1..Len(e), j \in 1..Len(e) :
    /\ e[i] = "@" /\ i >= 2 /\ e[i - 1] \notin LineTerminators
    /\ e[j] = "." /\ j >= i + 2 /\ j < Len(e)
    /\ \A k \in (i + 1)..(j - 1) : e[k] \notin LineTerminators
    /\ e[j + 1] \notin LineTerminators

\* Variant: the name validator accepts two characters.
ValidUserMin2(name, email) ==
  /\ name # Absent /\ Len(name) >= 2
  /\ email # NoEmail /\ EmailMatches(email)

\* userSchema: name required, minlength 3; email required, match.
ValidUser(name, email) ==
  /\ name # Absent /\ Len(name) >= 3
  /\ email # NoEmail /\ EmailMatches(email)

\* recipeSchema: title required, minlength 3; ingredients, instructions and
\* author required (`required` refuses null for the array of ingredients).
ValidRecipe(body) ==
  /\ body.title # Absent /\ Len(body.title) >= 3
  /\ body.ingredients # NoDoc
  /\ body.instructions # Absent
  /\ body.author # NoAuthor

\* A unique index (users.email, and _id of every collection): an insert of
\* `doc` is refused when a stored document has the same value for `key`.
DuplicateKey(coll, key, doc) == \E d \in coll : d[key] = doc[key]

UserSet == {users[i] : i \in 1..Len(users)}

\* new User({ name, email })
NewUser(id, name, email) ==
  [id |-> id, name |-> name, email |-> email, createdAt |-> Date]

\* Variant: the constructor is handed the whole request body, views included.
NewRecipeFromBody(id, body) ==
  [id |-> id, title |-> body.title, description |-> body.description,
   ingredients |-> body.ingredients, instructions |-> body.instructions,
   author |-> body.author, views |-> body.views, createdAt |-> Date]

\* new Recipe({ title, description, ingredients, instructions, author }):
\* views takes the schema default.
NewRecipe(id, body) ==
  [id |-> id, title |-> body.title, description |-> body.description,
   ingredients |-> body.ingredients, instructions |-> body.instructions,
   author |-> body.author, views |-> 0, createdAt |-> Date]

\* Variant: the copy leaves the identity out and the archive generates one.
ArchivedCopyNewIdentity(recipe) ==
  [f \in DOMAIN recipe \cup {"archivedAt"} |->
     IF f = "archivedAt" THEN Date
     ELSE IF f = "id" THEN MaxRecipes + 1 + Cardinality(archive)
     ELSE recipe[f]]

\* new ArchivedRecipe({ ...recipe.toObject(), archivedAt: new Date() }): every
\* field of the recipe, its identity included, plus the archival timestamp.
ArchivedCopy(recipe) ==
  [f \in DOMAIN recipe \cup {"archivedAt"} |->
     IF f = "archivedAt" THEN Date ELSE recipe[f]]

\* Variant: the update replaces the document, so fields left out are erased.
ApplyOverwrite(doc, upd) ==
  [f \in DOMAIN doc |->
     IF f \in DOMAIN upd THEN upd[f]
     ELSE IF f = "ingredients" THEN Array(<< >>)
     ELSE IF f = "description" THEN Absent
     ELSE doc[f]]

\* findByIdAndUpdate(id, updateData): the fields present overwrite the stored ones.
ApplyUpdate(doc, upd) ==
  [f \in DOMAIN doc |-> IF f \in DOMAIN upd THEN upd[f] ELSE doc[f]]

\* runValidators: the validators of the fields present in the update, run
\* before the store operation.  Request values are of their field's type, so
\* the casts of the update succeed.
ValidUpdate(upd) ==
  /\ "title" \in DOMAIN upd => (upd.title # Absent /\ Len(upd.title) >= 3)
  /\ "ingredients" \in DOMAIN upd => upd.ingredients # NoDoc
  /\ "instructions" \in DOMAIN upd => upd.instructions # Absent
  /\ "author" \in DOMAIN upd => upd.author # NoAuthor

\* { $inc: { views: 1 } }
IncViews(doc) == [doc EXCEPT !.views = @ + 1]

\* populate('author'): the referenced user, or null when there is none.
Populate(author) == IF author \in 1..Len(users) THEN users[author] ELSE NoDoc

Live == {id \in RecipeIds : recipes[id] # NoDoc}

\* Variant: the query has no author filter.
FindAll(userId) ==
  LET all == [i \in 1..MaxRecipes |-> recipes[i]]
      Matches(d) == d # NoDoc
  IN  SelectSeq(all, Matches)

\* Recipe.find({ author: userId }): the matching documents in store order.
FindByAuthor(userId) ==
  LET all == [i \in 1..MaxRecipes |-> recipes[i]]
      Matches(d) == d # NoDoc /\ d.author = userId
  IN  SelectSeq(all, Matches)

\* recipes.reduce((acc, recipe) => acc + recipe.views, 0)
RECURSIVE ReduceViews(_, _)
ReduceViews(docs, acc) ==
  IF docs = << >> THEN acc ELSE ReduceViews(Tail(docs), acc + Head(docs).views)

\* Variant: the sort direction is ignored (always ascending).
FirstSortedAscending(dir) ==
  {recipes[i] : i \in {i \in Live :
     \A j \in Live : recipes[i].views <= recipes[j].views}}

\* Recipe.findOne().sort({ views: dir }): the documents that can come first,
\* dir = -1 descending, 1 ascending; ties are in an order the store chooses.
FirstSorted(dir) ==
  {recipes[i] : i \in {i \in Live :
     \A j \in Live : dir * recipes[i].views <= dir * recipes[j].views}}

\* The number of binary digits of q.
RECURSIVE BitLength(_)
BitLength(q) == IF q = 0 THEN 0 ELSE 1 + BitLength(q \div 2)

\* The binary long division of a remainder r by d, with k significant digits
\* of the 53 of a double still to produce and `last` the last one produced
\* (-1: none yet): the direction in which round-to-nearest-even moves the
\* quotient, -1 down, 0 exact, 1 up.
RECURSIVE RoundDirection(_, _, _, _)
RoundDirection(r, d, k, last) ==
  IF r = 0 THEN 0
  ELSE IF k = 0
    THEN IF 2 * r < d THEN -1
         ELSE IF 2 * r > d THEN 1
         ELSE IF last = 1 THEN 1 ELSE -1
    ELSE LET b == (2 * r) \div d
             r2 == (2 * r) % d
         IN  IF last = -1 /\ b = 0
               THEN RoundDirection(r2, d, k, last)
               ELSE RoundDirection(r2, d, k - 1, b)

\* totalRecipes / totalUsers: the sign of (the double nearest to n / d) - n / d.
DoubleError(n, d) ==
  LET q == n \div d
  IN  IF q = 0 THEN RoundDirection(n % d, d, 53, -1)
      ELSE RoundDirection(n % d, d, 53 - BitLength(q), q % 2)

\* (totalRecipes / totalUsers).toFixed(2): a string, kept as its value in
\* hundredths.  toFixed rounds the double to the nearest hundredth and takes
\* the larger on a tie; the double is on the side of the exact quotient
\* except when that quotient is halfway between two hundredths.
ToFixed2(n, d) ==
  LET h == (100 * n) \div d
      m == (100 * n) % d
      up == IF 2 * m > d THEN TRUE
            ELSE IF 2 * m < d THEN FALSE
            ELSE DoubleError(n, d) >= 0
  IN  [string |-> TRUE, hundredths |-> IF up THEN h + 1 ELSE h]
Number(n) == [number |-> n]

IdleDel ==
  [pc |-> "idle", id |-> 0, recipe |-> NoDoc, found |-> FALSE,
   archived |-> FALSE, status |-> 0, error |-> ""]

IdleAna ==
  [pc |-> "idle", totalUsers |-> 0, totalRecipes |-> 0,
   avgRecipesPerUser |-> Number(0), mostViewed |-> NoDoc, leastViewed |-> NoDoc]

IdleGet == [pc |-> "idle", id |-> 0, recipe |-> NoDoc]

NoResp == [op |-> "none", status |-> 0]

Init ==
  /\ users = << >>
  /\ recipes = [id \in RecipeIds |-> NoDoc]
  /\ nextId = 1
  /\ archive = {}
  /\ del = [r \in DelReqs |-> IdleDel]
  /\ ana = IdleAna
  /\ get = IdleGet
  /\ resp = NoResp

\* ------------------------------------------------------------- handlers
\* POST /add-user
AddUser(name, email) ==
  /\ IF name = Absent \/ email = NoEmail
       THEN /\ resp' = [op |-> "addUser", status |-> 400, error |-> "required"]
            /\ UNCHANGED users
       ELSE IF ~ValidUser(name, email)
         THEN /\ resp' = [op |-> "addUser", status |-> 400, error |-> "validation"]
              /\ UNCHANGED users
         ELSE IF DuplicateKey(UserSet, "email", [email |-> email])
           THEN /\ resp' = [op |-> "addUser", status |-> 400, error |-> "duplicate key"]
                /\ UNCHANGED users
           ELSE /\ Len(users) < MaxUsers
                /\ users' = Append(users, NewUser(Len(users) + 1, name, email))
                /\ resp' = [op |-> "addUser", status |-> 201, user |-> Len(users) + 1]
  /\ UNCHANGED <<recipes, nextId, archive, del, ana, get>>

\* POST /add-recipe
AddRecipe(body) ==
  /\ IF ValidRecipe(body)
       THEN /\ nextId <= MaxRecipes
            /\ recipes' = [recipes EXCEPT ![nextId] = NewRecipe(nextId, body)]
            /\ nextId' = nextId + 1
            /\ resp' = [op |-> "addRecipe", status |-> 201, id |-> nextId,
                        views |-> recipes'[nextId].views]
       ELSE /\ resp' = [op |-> "addRecipe", status |-> 400, error |-> "validation"]
            /\ UNCHANGED <<recipes, nextId>>
  /\ UNCHANGED <<users, archive, del, ana, get>>

\* PUT /update-recipe/:recipeId
UpdateRecipe(id, upd) ==
  /\ IF ~ValidUpdate(upd)
       THEN /\ resp' = [op |-> "updateRecipe", status |-> 400, error |-> "validation"]
            /\ UNCHANGED recipes
       ELSE IF recipes[id] = NoDoc
         THEN /\ resp' = [op |-> "updateRecipe", status |-> 404, id |-> id]
              /\ UNCHANGED recipes
         ELSE /\ recipes' = [recipes EXCEPT ![id] = ApplyUpdate(@, upd)]
              /\ resp' = [op |-> "updateRecipe", status |-> 200, id |-> id]
  /\ UNCHANGED <<users, nextId, archive, del, ana, get>>

\* Variant: archiveRecipe without its `if (recipe)`.
DeleteLookupAlwaysArchives(r, id) ==
  /\ del[r].pc = "idle"
  /\ del' = [del EXCEPT ![r] =
       [IdleDel EXCEPT !.pc = "archive", !.id = id, !.recipe = recipes[id],
                       !.found = recipes[id] # NoDoc]]
  /\ UNCHANGED <<users, recipes, nextId, archive, ana, get, resp>>

\* DELETE /delete-recipe/:recipeId, store operation 1: archiveRecipe's findById.
DeleteLookup(r, id) ==
  /\ del[r].pc = "idle"
  /\ del' = [del EXCEPT ![r] =
       [IdleDel EXCEPT !.pc = IF recipes[id] # NoDoc THEN "archive" ELSE "delete",
                       !.id = id, !.recipe = recipes[id],
                       !.found = recipes[id] # NoDoc]]
  /\ UNCHANGED <<users, recipes, nextId, archive, ana, get, resp>>

\* Store operation 2: archived.save().  A duplicate _id rejects the insert and
\* the handler's catch answers 400.
DeleteArchive(r) ==
  /\ del[r].pc = "archive"
  /\ IF DuplicateKey(archive, "id", ArchivedCopy(del[r].recipe))
       THEN /\ del' = [del EXCEPT ![r].pc = "done", ![r].status = 400,
                                  ![r].error = "duplicate key", ![r].recipe = NoDoc]
            /\ UNCHANGED archive
       ELSE /\ archive' = archive \cup {ArchivedCopy(del[r].recipe)}
            /\ del' = [del EXCEPT ![r].pc = "delete", ![r].archived = TRUE,
                                  ![r].recipe = NoDoc]
  /\ UNCHANGED <<users, recipes, nextId, ana, get, resp>>

\* Variant: the handler without its `if (!deletedRecipe)`.
DeleteRemoveAnswers200(r) ==
  /\ del[r].pc = "delete"
  /\ recipes' = [recipes EXCEPT ![del[r].id] = NoDoc]
  /\ del' = [del EXCEPT ![r].pc = "done", ![r].status = 200]
  /\ UNCHANGED <<users, nextId, archive, ana, get, resp>>

\* Variant: on a delete that removed nothing the handler compensates by
\* removing the archive record its request wrote.
DeleteRemoveCompensates(r) ==
  /\ del[r].pc = "delete"
  /\ IF recipes[del[r].id] = NoDoc
       THEN /\ del' = [del EXCEPT ![r].pc = "done", ![r].status = 404]
            /\ archive' = {a \in archive : ~(del[r].archived /\ a.id = del[r].id)}
            /\ UNCHANGED recipes
       ELSE /\ recipes' = [recipes EXCEPT ![del[r].id] = NoDoc]
            /\ del' = [del EXCEPT ![r].pc = "done", ![r].status = 200]
            /\ UNCHANGED archive
  /\ UNCHANGED <<users, nextId, ana, get, resp>>

\* Store operation 3: Recipe.findByIdAndDelete, then the response.
DeleteRemove(r) ==
  /\ del[r].pc = "delete"
  /\ IF recipes[del[r].id] = NoDoc
       THEN /\ del' = [del EXCEPT ![r].pc = "done", ![r].status = 404]
            /\ UNCHANGED recipes
       ELSE /\ recipes' = [recipes EXCEPT ![del[r].id] = NoDoc]
            /\ del' = [del EXCEPT ![r].pc = "done", ![r].status = 200]
  /\ UNCHANGED <<users, nextId, archive, ana, get, resp>>

\* The response has been sent; the request is over.
DeleteFinish(r) ==
  /\ del[r].pc = "done"
  /\ del' = [del EXCEPT ![r] = IdleDel]
  /\ UNCHANGED <<users, recipes, nextId, archive, ana, get, resp>>

\* Variant: the catch compensates by removing the request's archive record.
DeleteStoreErrorRollsBack(r) ==
  /\ del[r].pc \in {"idle", "archive", "delete"}
  /\ \E id \in IF del[r].pc = "idle" THEN RecipeIds ELSE {del[r].id} :
       del' = [del EXCEPT ![r].pc = "done", ![r].id = id, ![r].status = 400,
                          ![r].error = "store error", ![r].recipe = NoDoc]
  /\ archive' = {a \in archive : ~(del[r].archived /\ a.id = del[r].id)}
  /\ UNCHANGED <<users, recipes, nextId, ana, get, resp>>

\* A store operation of deleteRecipe rejects (connection lost, timeout): the
\* handler's catch answers 400 and the handler ends.  The catch covers the
\* lookup (a request not yet started, for any id), the archive write and the
\* delete.
DeleteStoreError(r) ==
  /\ del[r].pc \in {"idle", "archive", "delete"}
  /\ \E id \in IF del[r].pc = "idle" THEN RecipeIds ELSE {del[r].id} :
       del' = [del EXCEPT ![r].pc = "done", ![r].id = id, ![r].status = 400,
                          ![r].error = "store error", ![r].recipe = NoDoc]
  /\ UNCHANGED <<users, recipes, nextId, archive, ana, get, resp>>

\* GET /recipe/:recipeId, store operation 1: findByIdAndUpdate with $inc.
\* No document: nothing to populate, the handler answers 404.
GetRecipe(id) ==
  /\ get.pc = "idle"
  /\ IF recipes[id] = NoDoc
       THEN /\ resp' = [op |-> "getRecipe", status |-> 404, id |-> id]
            /\ UNCHANGED <<recipes, get>>
       ELSE /\ recipes[id].views < MaxViews
            /\ recipes' = [recipes EXCEPT ![id] = IncViews(@)]
            /\ get' = [pc |-> "populate", id |-> id, recipe |-> recipes'[id]]
            /\ UNCHANGED resp
  /\ UNCHANGED <<users, nextId, archive, del, ana>>

\* Store operation 2: populate('author') reads the users, then the response
\* with the document the increment returned.
GetRecipePopulate ==
  /\ get.pc = "populate"
  /\ resp' = [op |-> "getRecipe", status |-> 200, id |-> get.id,
              views |-> get.recipe.views,
              author |-> Populate(get.recipe.author)]
  /\ get' = IdleGet
  /\ UNCHANGED <<users, recipes, nextId, archive, del, ana>>

\* GET /recipes/view/:recipeId
IncrementView(id) ==
  /\ IF recipes[id] = NoDoc
       THEN /\ resp' = [op |-> "incrementView", status |-> 404, id |-> id]
            /\ UNCHANGED recipes
       ELSE /\ recipes[id].views < MaxViews
            /\ recipes' = [recipes EXCEPT ![id] = IncViews(@)]
            /\ resp' = [op |-> "incrementView", status |-> 200, id |-> id,
                        views |-> recipes'[id].views]
  /\ UNCHANGED <<users, nextId, archive, del, ana, get>>

\* GET /user/:userId/views
TotalViewsByUser(userId) ==
  /\ resp' = [op |-> "totalViews", status |-> 200, userId |-> userId,
              totalViews |-> ReduceViews(FindByAuthor(userId), 0)]
  /\ UNCHANGED <<users, recipes, nextId, archive, del, ana, get>>

\* GET /analytics, store operation 1: User.countDocuments()
AnalyticsCountUsers ==
  /\ ana.pc = "idle"
  /\ ana' = [IdleAna EXCEPT !.pc = "countRecipes", !.totalUsers = Len(users)]
  /\ UNCHANGED <<users, recipes, nextId, archive, del, get, resp>>

\* Store operation 2: Recipe.countDocuments(), then the average.
AnalyticsCountRecipes ==
  /\ ana.pc = "countRecipes"
  /\ ana' = [ana EXCEPT !.pc = "mostViewed",
                        !.totalRecipes = Cardinality(Live),
                        !.avgRecipesPerUser =
                           IF ana.totalUsers # 0
                             THEN ToFixed2(Cardinality(Live), ana.totalUsers)
                             ELSE Number(0)]
  /\ UNCHANGED <<users, recipes, nextId, archive, del, get, resp>>

\* Store operation 3: Recipe.findOne().sort({ views: -1 })
AnalyticsMostViewed ==
  /\ ana.pc = "mostViewed"
  /\ \E d \in IF Live = {} THEN {NoDoc} ELSE FirstSorted(-1) :
       ana' = [ana EXCEPT !.pc = "leastViewed", !.mostViewed = d]
  /\ UNCHANGED <<users, recipes, nextId, archive, del, get, resp>>

\* Store operation 4: Recipe.findOne().sort({ views: 1 }), then the response.
AnalyticsLeastViewed ==
  /\ ana.pc = "leastViewed"
  /\ \E d \in IF Live = {} THEN {NoDoc} ELSE FirstSorted(1) :
       ana' = [ana EXCEPT !.pc = "done", !.leastViewed = d]
  /\ UNCHANGED <<users, recipes, nextId, archive, del, get, resp>>

AnalyticsFinish ==
  /\ ana.pc = "done"
  /\ ana' = IdleAna
  /\ UNCHANGED <<users, recipes, nextId, archive, del, get, resp>>

\* res.json({ totalUsers, totalRecipes, avgRecipesPerUser, mostViewedRecipe,
\* leastViewedRecipe }) of a request at "done".
AnalyticsResponse(a) ==
  [totalUsers |-> a.totalUsers, totalRecipes |-> a.totalRecipes,
   avgRecipesPerUser |-> a.avgRecipesPerUser,
   mostViewedRecipe |-> IF a.mostViewed # NoDoc THEN a.mostViewed ELSE NoRecipesYet,
   leastViewedRecipe |-> IF a.leastViewed # NoDoc THEN a.leastViewed ELSE NoRecipesYet]

\* ------------------------------------------------------------ workloads
\* The requests clients send.  Each specification below is the service under
\* one workload: the handlers it names, on the request values it names.
Names == {Absent, "ab", "abc", "abcd"}
Emails == {NoEmail,
           <<"a", "@", "b", ".", "c">>,
           <<"d", "@", "e", ".", "f">>,
           <<"g", "@", "h", ".", "i">>,
           <<"a", "@", "b">>,
           <<"a", "@", "\n", "b", ".", "c">>,
           <<"@", "b", ".", "c">>}

\* A body of POST /add-recipe; `views` is a field a client may send.
RecipeBody(title, author, views) ==
  [title |-> title, description |-> Absent, ingredients |-> Array(<<"leaf">>),
   instructions |-> "steep", author |-> author, views |-> views]

\* User management.
NextUsers == \E n \in Names, e \in Emails : AddUser(n, e)

\* Recipe create / update / delete, with concurrent deleteRecipe requests.
CrudBodies ==
  {RecipeBody("Tea", 1, 0), RecipeBody("ab", 1, 0),
   [RecipeBody("Tea", 1, 0) EXCEPT !.ingredients = NoDoc]}
CrudUpdates == {[title |-> "Soup"], [title |-> "ab"]}

NextRecipes ==
  \/ \E b \in CrudBodies : AddRecipe(b)
  \/ \E id \in RecipeIds, u \in CrudUpdates : UpdateRecipe(id, u)
  \/ \E r \in DelReqs, id \in RecipeIds : DeleteLookup(r, id)
  \/ \E r \in DelReqs : DeleteArchive(r)
  \/ \E r \in DelReqs : DeleteRemove(r)
  \/ \E r \in DelReqs : DeleteFinish(r)

\* Partial updates of one or two fields, valid and not, and of no field, with
\* a deleteRecipe request.
PartialUpdates ==
  {<< >>, [title |-> "Soup"], [title |-> "ab"],
   [title |-> "Soup", instructions |-> "boil"],
   [author |-> NoAuthor], [ingredients |-> NoDoc]}

NextUpdates ==
  \/ \E b \in CrudBodies : AddRecipe(b)
  \/ \E id \in RecipeIds, u \in PartialUpdates : UpdateRecipe(id, u)
  \/ \E id \in RecipeIds : DeleteLookup("d1", id)
  \/ DeleteArchive("d1")
  \/ DeleteRemove("d1")
  \/ DeleteFinish("d1")

\* Create / update / delete with store operations of deleteRecipe that may
\* fail.
NextFaulty ==
  \/ AddRecipe(RecipeBody("Tea", 1, 0))
  \/ \E id \in RecipeIds : UpdateRecipe(id, [title |-> "Soup"])
  \/ \E r \in DelReqs, id \in RecipeIds : DeleteLookup(r, id)
  \/ \E r \in DelReqs : DeleteArchive(r)
  \/ \E r \in DelReqs : DeleteRemove(r)
  \/ \E r \in DelReqs : DeleteFinish(r)
  \/ \E r \in DelReqs : DeleteStoreError(r)

\* View counting, with updates, a deleteRecipe request for the first recipe and
\* the author signing up meanwhile.
ViewBodies == {RecipeBody("Tea", 1, v) : v \in {0, 1}}

NextViews ==
  \/ AddUser("abc", <<"a", "@", "b", ".", "c">>)
  \/ \E b \in ViewBodies : AddRecipe(b)
  \/ \E id \in RecipeIds : UpdateRecipe(id, [views |-> 0])
  \/ \E id \in RecipeIds : GetRecipe(id)
  \/ GetRecipePopulate
  \/ \E id \in RecipeIds : IncrementView(id)
  \/ DeleteLookup("d1", 1)
  \/ DeleteArchive("d1")
  \/ DeleteRemove("d1")
  \/ DeleteFinish("d1")

\* Totals per author, with recipes of two authors viewed and deleted meanwhile;
\* user 3 never has a recipe.
AuthorBodies == {RecipeBody("Tea", a, 0) : a \in {1, 2}}
Authors == {1, 2, 3}

NextTotals ==
  \/ \E b \in AuthorBodies : AddRecipe(b)
  \/ \E id \in RecipeIds : IncrementView(id)
  \/ \E u \in Authors : TotalViewsByUser(u)
  \/ \E id \in RecipeIds : DeleteLookup("d1", id)
  \/ DeleteArchive("d1")
  \/ DeleteRemove("d1")
  \/ DeleteFinish("d1")

\* Analytics, with a user and recipes created, changed and deleted meanwhile.
NextAnalytics ==
  \/ AddUser("abc", <<"a", "@", "b", ".", "c">>)
  \/ AddRecipe(RecipeBody("Tea", 1, 0))
  \/ \E id \in RecipeIds : UpdateRecipe(id, [views |-> 1])
  \/ \E id \in RecipeIds : DeleteLookup("d1", id)
  \/ DeleteArchive("d1")
  \/ DeleteRemove("d1")
  \/ DeleteFinish("d1")
  \/ AnalyticsCountUsers
  \/ AnalyticsCountRecipes
  \/ AnalyticsMostViewed
  \/ AnalyticsLeastViewed
  \/ AnalyticsFinish

\* The whole service.
Next ==
  \/ NextUsers \/ NextRecipes \/ NextUpdates \/ NextFaulty
  \/ NextViews \/ NextTotals \/ NextAnalytics

Spec == Init /\ [][Next]_vars
SpecUsers == Init /\ [][NextUsers]_vars
SpecRecipes == Init /\ [][NextRecipes]_vars
SpecUpdates == Init /\ [][NextUpdates]_vars
SpecFaulty == Init /\ [][NextFaulty]_vars
SpecViews == Init /\ [][NextViews]_vars
SpecTotals == Init /\ [][NextTotals]_vars
SpecAnalytics == Init /\ [][NextAnalytics]_vars

\* =============================================================== claims
ContentFields == {"title", "ingredients", "instructions"}

\* The sum of the views of the recipes in S, by the definition of a sum.
RECURSIVE SumViews(_)
SumViews(S) ==
  IF S = {} THEN 0
  ELSE LET id == CHOOSE x \in S : TRUE
       IN  recipes[id].views + SumViews(S \ {id})

\* ------------------------------------------------------------------ C1
\* C1 as stated: a deleteRecipe on an existing recipe (its lookup found it)
\* that answers 200 has removed the recipe, which then no longer resolves, and
\* the archive holds a record with the title, ingredients and instructions of
\* the recipe that was removed and a set archival timestamp; 200 is answered
\* only by a delete step that removed the document.
C1_Original ==
  [][\A r \in DelReqs :
       (del[r].status # 200 /\ del'[r].status = 200) =>
         /\ DeleteRemove(r)
         /\ recipes[del[r].id] # NoDoc
         /\ recipes'[del[r].id] = NoDoc
         /\ del[r].found =>
              \E a \in archive' :
                /\ \A f \in ContentFields : a[f] = recipes[del[r].id][f]
                /\ a.archivedAt = Date]_vars

\* C1 amended: as C1, except that the archive record (of the recipe's
\* identity, with a set archival timestamp) has the title, ingredients and
\* instructions the recipe had when the request's lookup read it; archive
\* records are never changed or removed afterwards.
C1_Amended ==
  [][/\ archive \subseteq archive'
     /\ \A r \in DelReqs :
          /\ \A id \in RecipeIds :
               DeleteLookup(r, id) => del'[r].recipe = recipes[id]
          /\ (DeleteArchive(r) /\ del'[r].archived) =>
               \E a \in archive' \ archive :
                 /\ a.id = del[r].id
                 /\ \A f \in ContentFields : a[f] = del[r].recipe[f]
                 /\ a.archivedAt = Date
          /\ (del[r].status # 200 /\ del'[r].status = 200) =>
               /\ DeleteRemove(r)
               /\ recipes[del[r].id] # NoDoc
               /\ recipes'[del[r].id] = NoDoc
               /\ del[r].found =>
                    \E a \in archive' : a.id = del[r].id /\ a.archivedAt = Date]_vars

\* A request that found the recipe has answered 200: the recipe is gone and
\* its archive record is there.
C1_Witness ==
  \E r \in DelReqs :
    /\ del[r].pc = "done" /\ del[r].found /\ del[r].status = 200
    /\ recipes[del[r].id] = NoDoc
    /\ \E a \in archive : a.id = del[r].id

\* ------------------------------------------------------------------ C2
\* C2: a deleteRecipe whose id does not resolve skips the archive write at
\* its lookup, answers 404 at its delete step, and neither step changes the
\* recipes or the archive; only requests that found a recipe write an
\* archive record.
C2_NotFound ==
  [][\A r \in DelReqs :
       /\ \A id \in RecipeIds :
            (DeleteLookup(r, id) /\ recipes[id] = NoDoc) =>
              /\ del'[r].pc = "delete" /\ ~del'[r].found
              /\ UNCHANGED <<recipes, archive>>
       /\ (DeleteRemove(r) /\ recipes[del[r].id] = NoDoc) =>
            /\ del'[r].status = 404 /\ del'[r].pc = "done"
            /\ UNCHANGED <<recipes, archive>>
       /\ DeleteArchive(r) => del[r].found
       /\ del'[r].archived => del'[r].found]_vars

C2_Witness ==
  \E r \in DelReqs :
    /\ del[r].pc = "done" /\ ~del[r].found /\ ~del[r].archived
    /\ del[r].status = 404
    /\ recipes[del[r].id] = NoDoc

ViewStep(id) == GetRecipe(id) \/ IncrementView(id)

\* C4: a recipe is created with views = 0 whatever the body says; the store
\* step of a getRecipe or incrementView on an existing recipe raises its views
\* by exactly 1 and changes no other recipe; incrementView reports the new
\* value at once and getRecipe reports, after its populate, the value its own
\* increment produced; on a missing recipe both answer 404 and change nothing;
\* between creation and deletion nothing but these and updateRecipe changes a
\* recipe's views.
C4_Views ==
  [][/\ \A b \in ViewBodies :
          (AddRecipe(b) /\ resp'.status = 201) =>
            /\ recipes[nextId] = NoDoc /\ recipes'[nextId].views = 0
            /\ resp'.views = 0
     /\ \A id \in RecipeIds :
          /\ (ViewStep(id) /\ recipes[id] # NoDoc) =>
               /\ recipes'[id] = [recipes[id] EXCEPT !.views = recipes[id].views + 1]
               /\ \A other \in RecipeIds \ {id} : recipes'[other] = recipes[other]
          /\ (IncrementView(id) /\ recipes[id] # NoDoc) =>
               resp'.status = 200 /\ resp'.views = recipes[id].views + 1
          /\ (GetRecipe(id) /\ recipes[id] # NoDoc) =>
               get'.id = id /\ get'.recipe.views = recipes[id].views + 1
          /\ (ViewStep(id) /\ recipes[id] = NoDoc) =>
               resp'.status = 404 /\ recipes' = recipes
          /\ ( /\ recipes[id] # NoDoc /\ recipes'[id] # NoDoc
               /\ recipes'[id].views # recipes[id].views ) =>
               \/ ViewStep(id) /\ recipes'[id].views = recipes[id].views + 1
               \/ UpdateRecipe(id, [views |-> 0])
     /\ GetRecipePopulate =>
          /\ resp'.status = 200 /\ resp'.id = get.id
          /\ resp'.views = get.recipe.views
          /\ recipes' = recipes]_vars

\* The second getRecipe of a recipe reports 2 and the store holds 2.
C4_Witness ==
  \E id \in RecipeIds :
    /\ resp = [op |-> "getRecipe", status |-> 200, id |-> id, views |-> 2,
               author |-> NoDoc]
    /\ recipes[id] # NoDoc /\ recipes[id].views = 2

\* ------------------------------------------------------------------ C5
UpdateFrame(id, u) ==
  /\ \A f \in DOMAIN u : recipes'[id][f] = u[f]
  /\ \A f \in DOMAIN recipes[id] \ DOMAIN u : recipes'[id][f] = recipes[id][f]
  /\ DOMAIN recipes'[id] = DOMAIN recipes[id]
  /\ \A other \in RecipeIds \ {id} : recipes'[other] = recipes[other]
  /\ UNCHANGED <<users, archive, nextId>>

\* C5 as stated: every updateRecipe on an id that does not resolve answers 404
\* and changes no recipe; on an existing id it overwrites exactly the fields
\* in the request and leaves every other field, recipe, user and the archive
\* unchanged.
C5_Original ==
  [][\A id \in RecipeIds, u \in PartialUpdates :
       UpdateRecipe(id, u) =>
         IF recipes[id] = NoDoc
           THEN resp'.status = 404 /\ UNCHANGED store
           ELSE UpdateFrame(id, u)]_vars

\* C5 amended: the same for a request whose fields pass the validators; a
\* request with a field that fails them answers 400 and changes nothing,
\* whether or not the id resolves.
C5_Amended ==
  [][\A id \in RecipeIds, u \in PartialUpdates :
       UpdateRecipe(id, u) =>
         IF ~ValidUpdate(u)
           THEN resp'.status = 400 /\ UNCHANGED store
           ELSE IF recipes[id] = NoDoc
             THEN resp'.status = 404 /\ UNCHANGED store
             ELSE resp'.status = 200 /\ UpdateFrame(id, u)]_vars

\* An update of the title alone has been applied: the title is new and the
\* other fields are those of creation.
C5_Witness ==
  \E id \in RecipeIds :
    /\ resp = [op |-> "updateRecipe", status |-> 200, id |-> id]
    /\ recipes[id] # NoDoc
    /\ recipes[id].title = "Soup" /\ recipes[id].instructions = "steep"
    /\ recipes[id].ingredients = Array(<<"leaf">>)

\* ------------------------------------------------------------------ C6
UsersValid ==
  /\ \A i \in 1..Len(users) :
       Len(users[i].name) >= 3 /\ users[i].email # NoEmail
  /\ \A i \in 1..Len(users), j \in 1..Len(users) :
       users[i].email = users[j].email => i = j

\* C6: every stored user has a name of at least 3 characters and a non-empty
\* email, no two stored users share an email, and a createUser with a missing
\* name or email, a name of length 2 or an email already stored answers 400
\* and leaves the users unchanged.
C6_Users ==
  [][/\ UsersValid'
     /\ \A n \in Names, e \in Emails :
          ( /\ AddUser(n, e)
            /\ \/ n = Absent \/ e = NoEmail \/ Len(n) = 2
               \/ \E i \in 1..Len(users) : users[i].email = e )
          => resp'.status = 400 /\ users' = users
     /\ users' # users =>
          /\ Len(users') = Len(users) + 1
          /\ SubSeq(users', 1, Len(users)) = users
          /\ resp'.status = 201]_vars

\* A createUser was refused for an email that is already stored.
C6_Witness ==
  /\ resp = [op |-> "addUser", status |-> 400, error |-> "duplicate key"]
  /\ Len(users) = 2

\* ------------------------------------------------------------------ C7
\* C7: totalViewsByUser answers the sum of the views of exactly the recipes
\* whose author is that user in the store state of its step (0 when there are
\* none) and changes nothing in the store.
C7_TotalViews ==
  [][\A u \in Authors :
       TotalViewsByUser(u) =>
         /\ resp'.status = 200
         /\ resp'.totalViews =
              SumViews({id \in RecipeIds :
                          recipes[id] # NoDoc /\ recipes[id].author = u})
         /\ UNCHANGED <<store, del, ana, get>>]_vars

\* The total of one author was answered while a recipe of another author had
\* views of its own.
C7_Witness ==
  /\ resp.op = "totalViews" /\ resp.totalViews = 2
  /\ \E i \in RecipeIds, j \in RecipeIds :
       /\ recipes[i] # NoDoc /\ recipes[j] # NoDoc
       /\ recipes[i].author = resp.userId /\ recipes[i].views = 2
       /\ recipes[j].author # resp.userId /\ recipes[j].views = 1

\* ------------------------------------------------------------------ C8
\* What each store operation of getAnalytics contributes to the response.
AnalyticsSteps ==
  /\ AnalyticsCountRecipes =>
       /\ ana'.totalRecipes = Cardinality(Live)
       /\ ana.totalUsers = 0 =>
            AnalyticsResponse(ana').avgRecipesPerUser = Number(0)
  /\ AnalyticsMostViewed =>
       LET m == AnalyticsResponse(ana').mostViewedRecipe
       IN  IF Live = {} THEN m = NoRecipesYet
           ELSE \E i \in Live :
                  m = recipes[i] /\ \A j \in Live : recipes[j].views <= m.views
  /\ AnalyticsLeastViewed =>
       LET l == AnalyticsResponse(ana').leastViewedRecipe
       IN  IF Live = {} THEN l = NoRecipesYet
           ELSE \E i \in Live :
                  l = recipes[i] /\ \A j \in Live : recipes[j].views >= l.views
  /\ (ana.pc # "idle" /\ ana'.pc # "idle") =>
       /\ ana.pc # "countRecipes" => ana'.totalRecipes = ana.totalRecipes
       /\ ana'.totalUsers = ana.totalUsers
       /\ ana.pc \in {"leastViewed", "done"} => ana'.mostViewed = ana.mostViewed
       /\ ana.pc = "done" => ana' = ana

\* C8 as stated: avgRecipesPerUser is 0 with zero users, the extremal fields
\* are a recipe of maximum / minimum views or the sentinel when no recipe
\* exists, and the response reports totalRecipes = 0 exactly when both
\* extremal fields are the sentinel.
C8_Original ==
  [][/\ AnalyticsSteps
     /\ ana'.pc = "done" =>
          LET R == AnalyticsResponse(ana')
          IN  R.totalRecipes = 0 <=>
                (R.mostViewedRecipe = NoRecipesYet /\ R.leastViewedRecipe = NoRecipesYet)]_vars

\* C8 amended: avgRecipesPerUser is 0 when the user count read is 0;
\* totalRecipes is the number of recipes at the count query; mostViewedRecipe
\* (leastViewedRecipe) is a recipe of maximum (minimum) views in the store
\* state its own query read, or the sentinel when that state holds no recipe.
\* The three queries may read different states, so nothing ties totalRecipes
\* to the sentinels.
C8_Amended == [][AnalyticsSteps]_vars

\* With zero users counted, a response names two different recipes as most
\* and least viewed.
C8_Witness ==
  /\ ana.pc = "done" /\ ana.totalUsers = 0
  /\ ana.avgRecipesPerUser = Number(0)
  /\ ana.mostViewed # NoDoc /\ ana.leastViewed # NoDoc
  /\ ana.mostViewed.views > ana.leastViewed.views

\* ------------------------------------------------------------------ C9
\* C9: when the delete step of deleteRecipe fails after the archive write, the
\* request answers 400 and ends, the archive record stays and the recipe is not
\* removed; a request that has answered does nothing more than end.
C9_NoRollback ==
  [][\A r \in DelReqs :
       /\ (DeleteStoreError(r) /\ del[r].pc = "delete") =>
            /\ del'[r].status = 400 /\ del'[r].pc = "done"
            /\ UNCHANGED <<recipes, archive>>
       /\ del[r].pc = "done" =>
            \/ del'[r] = del[r]
            \/ del'[r] = IdleDel /\ UNCHANGED store]_vars

\* The delete step failed after the archive write: the recipe is both live
\* and archived, and the request answered 400.
C9_Witness ==
  \E r \in DelReqs :
    /\ del[r].pc = "done" /\ del[r].status = 400 /\ del[r].error = "store error"
    /\ del[r].archived
    /\ recipes[del[r].id] # NoDoc
    /\ \E a \in archive : a.id = del[r].id

\* ----------------------------------------------------------------- C10
ArchiveUnique == \A a \in archive, b \in archive : a.id = b.id => a = b

\* C10: an archive write stores a record with the recipe's identity; the
\* archive never holds two records of one identity; an archive write that
\* finds a record of that identity fails: the request answers 400 and ends
\* without a delete step, the recipes and the archive unchanged.
C10_OnePerIdentity ==
  [][/\ ArchiveUnique'
     /\ \A r \in DelReqs :
          /\ (DeleteArchive(r) /\ \E a \in archive : a.id = del[r].id) =>
               /\ del'[r].pc = "done" /\ del'[r].status = 400
               /\ ~del'[r].archived
               /\ UNCHANGED <<recipes, archive>>
          /\ (DeleteArchive(r) /\ del'[r].archived) =>
               \E a \in archive' : a.id = del[r].id
          /\ (DeleteRemove(r) /\ del[r].found) => del[r].archived]_vars

\* A request failed its archive write on a duplicate identity and the recipe
\* is still live.
C10_Witness ==
  \E r \in DelReqs :
    /\ del[r].pc = "done" /\ del[r].status = 400 /\ del[r].error = "duplicate key"
    /\ del[r].found /\ ~del[r].archived
    /\ recipes[del[r].id] # NoDoc
====
